---- MODULE Spec2Model ----
(***************************************************************************)
(* rss2bsky: one-way bridge from a syndication feed to a Bluesky account.  *)
(* The model follows src/rss2bsky/main.py: main() is a sequence of runs,   *)
(* each run iterates reversed(feed.entries), filters every entry against   *)
(* the skip tag, the cursor read at the start of the run and the start     *)
(* date, and for each entry that passes logs in (once), publishes and      *)
(* overwrites the cursor file.                                             *)
(*                                                                         *)
(* Strings are sequences of one-character strings.  A `published` string   *)
(* is two digits <<h, z>>: a local hour and a UTC offset, which is what    *)
(* DATE_FORMAT ("... %H:%M:%S %z") makes of it; two different strings may  *)
(* denote the same instant.                                                *)
(***************************************************************************)
EXTENDS Integers, Sequences, FiniteSets, TLC

VARIABLES
    settings,               \* the dynaconf settings the code reads
    last_posted_file,       \* LAST_POSTED_FILE: <<>> absent, <<s>> content s
    pc,                     \* position of main(): idle, loop, login, sleep,
                            \* post, save, ended
    entries,                \* feed.entries of the current run
    todo,                   \* what the for loop has still to visit
    last_posted_date_str,   \* main's local: <<>> is None, <<s>> a string
    client,                 \* main's local: "None", "LoggedIn" (a Client whose
                            \* login returned) or "NotLoggedIn" (a Client whose
                            \* login raised)
    message,                \* main's local: text built by truncate_text
    description,            \* truncate_text's argument
    limit,                  \* truncate_text's argument
    posted,                 \* history: entries published in this run, in order
    saved,                  \* history: entries whose cursor save completed
    postCount,              \* history: successful publishes per entry (capped)
    logins,                 \* history: login calls made in this run
    loginError,             \* history: str(e) of the login that raised, or <<>>
    lastStep,               \* history: the step taken last
    lastWrite,              \* history: <<old, new>> of the last completed save
    runs,                   \* number of runs started
    gap,                    \* history: a run ended between publish and save
    unordered,              \* history: a feed was not reverse-chronological
    image,                  \* main's local: "None", "bytes" or "empty" (b"")
    status,                 \* history: status code of the image fetch made for
                            \* the entry in hand, 0 when none was made
    sent,                   \* history: how the entry in hand was published:
                            \* "image", "text", or "none" (not yet)
    prior,                  \* history: how the run before this one ended, when
                            \* that matters: <<"gap", e, clean>> (killed between
                            \* the publish of e and its cursor save; clean says
                            \* its feed was newest first with distinct instants),
                            \* <<"rerun">> (completed, and this run has the same
                            \* feed), else <<>>
    cursorAtStart,          \* history: cursor file when the run started
    procs                   \* two processes running main() at the same time:
                            \* for each its position, its locals and history

vars == <<settings, last_posted_file, pc, entries, todo, last_posted_date_str,
          client, message, description, limit, posted, saved, postCount,
          logins, loginError, lastStep, lastWrite, runs, gap, unordered, prior,
          image, status, sent, cursorAtStart, procs>>

(***************************************************************************)
(* Bounds of the model.                                                    *)
(***************************************************************************)
NumEntries == 3
MaxFeedLen == 3
MaxRuns == 2
MaxDescLen == 4
MaxSlack == 3

(***************************************************************************)
(* Values.                                                                 *)
(***************************************************************************)
None == <<>>
EmptyStr == <<>>
Digits == <<"0", "1", "2", "3", "4", "5", "6", "7", "8", "9">>

Min(a, b) == IF a <= b THEN a ELSE b
Max(a, b) == IF a >= b THEN a ELSE b

SeqsUpTo(S, n) == UNION {[1..k -> S] : k \in 0..n}

\* str(n) for one decimal digit
DigitStr(n) == Digits[n + 1]

\* int(c) for one decimal digit
DigitVal(c) == CHOOSE n \in 0..9 : Digits[n + 1] = c

(***************************************************************************)
(* The feed collaborator's entries.  Entry e carries the attributes the    *)
(* code reads: published, description, title, link.                        *)
(*   e   published  instant                                                *)
(*   1   "10"       1                                                      *)
(*   2   "21"       1      another zone, the same instant as entry 1       *)
(*   3   "20"       2      description holds "#n"                          *)
(*   4   "30"       3      (entries past NumEntries are not in the feeds)  *)
(***************************************************************************)
Entries == 1..NumEntries

entry_published(e) ==
    <<DigitStr((IF e <= 2 THEN e ELSE e - 1) % 10),
      DigitStr(IF e = 2 THEN 1 ELSE 0)>>

entry_description(e) ==
    IF e % 3 = 0 THEN <<"h", "i", " ", "#", "n">> ELSE <<"h", "i">>

entry_title(e) == <<"t", DigitStr(e % 10)>>

entry_link(e) == <<"/", DigitStr(e % 10)>>

\* the media of an entry: whether it has the key "enclosures", the list under
\* it, and the list under "media_content" (empty when the key is absent);
\* every candidate has a url
entry_media(e) ==
    CASE e % 4 = 1 ->
            [has_enclosures |-> FALSE, enclosures |-> <<>>,
             media_content |-> <<[url |-> <<"a", ".", "P", "N", "G">>]>>]
      [] e % 4 = 2 ->
            [has_enclosures |-> TRUE,
             enclosures |-> <<[url |-> <<"b", ".", "w", "e", "b", "p">>]>>,
             media_content |-> <<[url |-> <<"c", ".", "j", "p", "g">>]>>]
      [] e % 4 = 3 ->
            [has_enclosures |-> TRUE, enclosures |-> <<>>,
             media_content |-> <<[url |-> <<"d", ".", "g", "i", "f">>]>>]
      [] OTHER ->
            [has_enclosures |-> TRUE,
             enclosures |-> <<[url |-> <<"e", ".", "j", "p", "e", "g">>],
                              [url |-> <<"f", ".", "w", "e", "b", "p">>]>>,
             media_content |-> <<>>]

\* feedparser.parse(feed_url).entries: any sequence of distinct entries
Feeds ==
    {f \in SeqsUpTo(Entries, MaxFeedLen) :
        \A i, j \in 1..Len(f) : i # j => f[i] # f[j]}

(***************************************************************************)
(* Python built-ins the code uses.                                         *)
(***************************************************************************)
\* s.lower(), for the capitals that occur in the urls
lower(s) ==
    [k \in 1..Len(s) |->
        CASE s[k] = "P" -> "p"
          [] s[k] = "N" -> "n"
          [] s[k] = "G" -> "g"
          [] OTHER -> s[k]]

\* s.endswith(suffixes), suffixes a set of strings
endswith(s, suffixes) ==
    \E suf \in suffixes :
        IF Len(suf) > Len(s) THEN FALSE
        ELSE SubSeq(s, Len(s) - Len(suf) + 1, Len(s)) = suf

\* sub in s
Contains(sub, s) ==
    \E k \in 1..(Len(s) - Len(sub) + 1) : SubSeq(s, k, k + Len(sub) - 1) = sub

RECURSIVE LStrip(_)
LStrip(s) == IF s # <<>> /\ Head(s) = " " THEN LStrip(Tail(s)) ELSE s

RECURSIVE RStrip(_)
RStrip(s) ==
    IF s # <<>> /\ s[Len(s)] = " " THEN RStrip(SubSeq(s, 1, Len(s) - 1)) ELSE s

\* s.strip()
strip(s) == RStrip(LStrip(s))

\* s.split(sep, 1)[1], for sep in s
AfterFirst(s, sep) ==
    LET k == CHOOSE i \in 1..(Len(s) - Len(sep) + 1) :
                 /\ SubSeq(s, i, i + Len(sep) - 1) = sep
                 /\ \A j \in 1..(i - 1) : SubSeq(s, j, j + Len(sep) - 1) # sep
    IN  SubSeq(s, k + Len(sep), Len(s))

\* s[:n]
SliceTo(s, n) ==
    IF n >= 0 THEN SubSeq(s, 1, Min(n, Len(s)))
    ELSE SubSeq(s, 1, Max(0, Len(s) + n))

\* mutant of reversed: the feed is visited in the order it was delivered
reversed_forward(s) == s

\* reversed(s)
reversed(s) == [k \in 1..Len(s) |-> s[Len(s) + 1 - k]]

\* datetime.strptime(s, settings.DATE_FORMAT): the instant, local hour minus offset
strptime(s) == DigitVal(s[1]) - DigitVal(s[2])

(***************************************************************************)
(* Cursor store.                                                           *)
(***************************************************************************)
\* mutant of read_last_posted_date: the file is never found
read_last_posted_date_missing(file) == None

\* mutant of save_last_posted_date: the parsed date is written back in UTC
save_last_posted_date_utc(pub_date) == <<<<DigitStr(strptime(pub_date)), "0">>>>

read_last_posted_date(file) ==
    IF file # <<>> THEN <<strip(file[1])>> ELSE None

save_last_posted_date(pub_date) == <<pub_date>>

\* main, lines 119-123 and 106-110: a None or empty string gives no datetime
parse_optional(str) ==
    IF str # None /\ str[1] # EmptyStr THEN <<strptime(str[1])>> ELSE None

(***************************************************************************)
(* truncate_text                                                           *)
(***************************************************************************)
link_text == <<"R", "e", "a", "d", " ", "p", "o", "s", "t">>

PostLimit == 300

truncate_text(desc, link, lim) ==
    LET d1 == IF settings.SPLITTER # <<>> /\ Contains(settings.SPLITTER, desc)
              THEN strip(AfterFirst(desc, settings.SPLITTER))
              ELSE desc
        max_description_length == lim - Len(link_text)
        d2 == IF Len(d1) > max_description_length
              THEN SliceTo(d1, max_description_length)
              ELSE d1
    IN  [text |-> d2 \o <<" ">> \o link_text, uri |-> link]

(***************************************************************************)
(* The filters of main's loop.                                             *)
(***************************************************************************)
\* mutant of skip_tagged: the skip tag is not looked at
skip_tagged_off(e) == FALSE

skip_tagged(e) ==
    settings.SKIP_TAG # <<>> /\ Contains(settings.SKIP_TAG, entry_description(e))

\* mutant of passes_dates: the cursor test is >= instead of >
passes_dates_ge(e, last_str) ==
    LET pub_date == strptime(entry_published(e))
        last_posted_date == parse_optional(last_str)
        start_post_date == parse_optional(<<settings.START_POST_DATE>>)
    IN  /\ (IF last_posted_date = None THEN TRUE
            ELSE pub_date >= last_posted_date[1])
        /\ (IF start_post_date = None THEN TRUE
            ELSE pub_date > start_post_date[1])

\* mutant of passes_dates: the start date is not looked at
passes_dates_no_start(e, last_str) ==
    LET pub_date == strptime(entry_published(e))
        last_posted_date == parse_optional(last_str)
    IN  IF last_posted_date = None THEN TRUE
        ELSE pub_date > last_posted_date[1]

passes_dates(e, last_str) ==
    LET pub_date == strptime(entry_published(e))
        last_posted_date == parse_optional(last_str)
        start_post_date == parse_optional(<<settings.START_POST_DATE>>)
    IN  /\ (IF last_posted_date = None THEN TRUE
            ELSE pub_date > last_posted_date[1])
        /\ (IF start_post_date = None THEN TRUE
            ELSE pub_date > start_post_date[1])

(***************************************************************************)
(* Initial state: a fresh installation, no cursor file, no run started.    *)
(***************************************************************************)
SettingsChoices ==
    [SKIP_TAG : {<<>>, <<"#", "n">>},
     START_POST_DATE : {EmptyStr, <<"1", "0">>},
     SPLITTER : {<<>>}]

\* the program is not running twice at the same time
NoProcs == <<>>

Init ==
    /\ settings \in SettingsChoices
    /\ last_posted_file = <<>>
    /\ pc = "idle"
    /\ entries = <<>>
    /\ todo = <<>>
    /\ last_posted_date_str = None
    /\ client = "None"
    /\ message = None
    /\ description = <<>>
    /\ limit = PostLimit
    /\ posted = <<>>
    /\ saved = <<>>
    /\ postCount = [e \in Entries |-> 0]
    /\ logins = 0
    /\ loginError = <<>>
    /\ lastStep = "init"
    /\ lastWrite = <<>>
    /\ runs = 0
    /\ gap = FALSE
    /\ unordered = FALSE
    /\ image = "None"
    /\ status = 0
    /\ sent = "none"
    /\ prior = <<>>
    /\ cursorAtStart = <<>>
    /\ procs = NoProcs

\* the publication instant of an entry
Ts(e) == strptime(entry_published(e))

\* no two entries of the feed have the same publication instant
DistinctTs(f) == \A i, j \in 1..Len(f) : i # j => Ts(f[i]) # Ts(f[j])

\* the feed is in the order the code assumes: newest first
RevChron(f) ==
    \A i, j \in 1..Len(f) :
        i < j => strptime(entry_published(f[i])) >= strptime(entry_published(f[j]))

(***************************************************************************)
(* main(): one action per step.                                            *)
(***************************************************************************)
\* lines 100-126: fetch the feed, read the cursor, enter the loop
Begin(f) ==
    /\ runs < MaxRuns
    /\ entries' = f
    /\ todo' = reversed(f)
    /\ last_posted_date_str' = read_last_posted_date(last_posted_file)
    /\ client' = "None"
    /\ message' = None
    /\ pc' = "loop"
    /\ posted' = <<>>
    /\ saved' = <<>>
    /\ logins' = 0
    /\ loginError' = <<>>
    /\ lastStep' = "start"
    /\ lastWrite' = <<>>
    /\ runs' = runs + 1
    /\ unordered' = (unordered \/ ~RevChron(f))
    /\ cursorAtStart' = last_posted_file
    /\ image' = "None"
    /\ status' = 0
    /\ sent' = "none"
    /\ UNCHANGED <<settings, last_posted_file, description, limit, postCount,
                   gap, procs>>

\* lines 165-166: the scheduler starts the program; the feed has any content
StartRun(f) ==
    /\ pc = "idle"
    /\ Begin(f)
    /\ UNCHANGED prior

\* lines 165-166: the process of a completed run exits and the scheduler
\* starts the program again at once, the feed being what it was
Rerun ==
    /\ pc = "ended"
    /\ Begin(entries)
    /\ prior' = <<"rerun">>

\* lines 127-130: the skip tag is in the description: continue
SkipEntry ==
    /\ pc = "loop"
    /\ todo # <<>>
    /\ skip_tagged(Head(todo))
    /\ todo' = Tail(todo)
    /\ lastStep' = "skip"
    /\ UNCHANGED <<settings, last_posted_file, pc, entries,
                   last_posted_date_str, client, message, description, limit,
                   posted, saved, postCount, logins, loginError, lastWrite,
                   runs, gap, unordered, prior, image, status, sent,
                   cursorAtStart, procs>>

\* mutant of FilterOut: the loop does not move to the next entry
FilterOut_stuck ==
    /\ pc = "loop"
    /\ todo # <<>>
    /\ ~skip_tagged(Head(todo))
    /\ ~passes_dates(Head(todo), last_posted_date_str)
    /\ lastStep' = "filtered"
    /\ UNCHANGED <<settings, last_posted_file, pc, entries, todo,
                   last_posted_date_str, client, message, description, limit,
                   posted, saved, postCount, logins, loginError, lastWrite,
                   runs, gap, unordered, prior, image, status, sent,
                   cursorAtStart, procs>>

\* lines 132-136: the date test is false: next entry
FilterOut ==
    /\ pc = "loop"
    /\ todo # <<>>
    /\ ~skip_tagged(Head(todo))
    /\ ~passes_dates(Head(todo), last_posted_date_str)
    /\ todo' = Tail(todo)
    /\ lastStep' = "filtered"
    /\ UNCHANGED <<settings, last_posted_file, pc, entries,
                   last_posted_date_str, client, message, description, limit,
                   posted, saved, postCount, logins, loginError, lastWrite,
                   runs, gap, unordered, prior, image, status, sent,
                   cursorAtStart, procs>>

\* lines 67-68
is_image(url) ==
    endswith(lower(url), {<<".", "j", "p", "g">>, <<".", "j", "p", "e", "g">>,
                          <<".", "p", "n", "g">>, <<".", "g", "i", "f">>})

\* lines 142-144: the key the candidates are read from
media_key(e) ==
    IF entry_media(e).has_enclosures THEN "enclosures" ELSE "media_content"

\* line 147: entry.get(media_key)
media_content(e) ==
    IF media_key(e) = "enclosures" THEN entry_media(e).enclosures
    ELSE entry_media(e).media_content

\* lines 147-149: the list is not empty and its first candidate is an image
wants_image(e) ==
    IF media_content(e) = <<>> THEN FALSE
    ELSE is_image(media_content(e)[1].url)

\* what httpx.get can return: a status code and a body, which can be empty
Responses == [status_code : {200, 404}, content : {"bytes", "empty"}]

\* lines 60-64
download_image(response) ==
    IF response.status_code = 200 THEN response.content ELSE "None"

\* line 73, `if image:`: None and b"" are false
truthy(img) == img \notin {"None", "empty"}

\* mutant of client_or_get_client: get_client is called for every entry
client_or_get_client_eager(c) == "login"

\* line 155, client = client or get_client(): get_client is called only
\* while main holds no client
client_or_get_client(c) == IF c = "None" THEN "login" ELSE "post"

\* lines 137-155: build the message; client = client or get_client()
Prepare(response) ==
    /\ pc = "loop"
    /\ todo # <<>>
    /\ ~skip_tagged(Head(todo))
    /\ passes_dates(Head(todo), last_posted_date_str)
    /\ message' = truncate_text(entry_title(Head(todo)),
                                entry_link(Head(todo)), PostLimit)
    /\ image' = IF wants_image(Head(todo)) THEN download_image(response)
                ELSE "None"
    /\ status' = IF wants_image(Head(todo)) THEN response.status_code ELSE 0
    /\ pc' = client_or_get_client(client)
    /\ lastStep' = "prepare"
    /\ UNCHANGED <<settings, last_posted_file, entries, todo,
                   last_posted_date_str, client, description, limit, posted,
                   saved, postCount, logins, loginError, lastWrite, runs, gap,
                   unordered, prior, sent, cursorAtStart, procs>>

\* what login can raise: str(e) of a RequestException, as a sequence of words
LoginErrors ==
    {<<"Response", "429", "RateLimitExceeded">>,
     <<"Response", "401", "AuthenticationRequired">>}

\* mutant of rate_limited: every failure is taken for a rate limit
rate_limited_always(msg) == TRUE

\* get_client, line 92: "RateLimitExceeded" in msg
rate_limited(msg) == Contains(<<"RateLimitExceeded">>, msg)

\* get_client, line 86: the test of `while client is None` decides where
\* `continue` (line 96) leads: back to the login or out of the loop to the
\* return (line 97) and the publish
after_continue(c) == IF c = "None" THEN "login" ELSE "post"

\* get_client, lines 88-96: Client() was assigned to client (line 88), then
\* login raised RequestException; on a rate limit the process sleeps
LoginFail(msg) ==
    /\ pc = "login"
    /\ logins' = logins + 1
    /\ client' = "NotLoggedIn"
    /\ loginError' = msg
    /\ pc' = IF rate_limited(msg) THEN "sleep" ELSE after_continue(client')
    /\ lastStep' = "loginfail"
    /\ UNCHANGED <<settings, last_posted_file, entries, todo,
                   last_posted_date_str, message, description, limit, posted,
                   saved, postCount, lastWrite, runs, gap, unordered, prior,
                   image, status, sent, cursorAtStart, procs>>

\* get_client, lines 94-96: time.sleep(86400) returns, then print, continue
Wake ==
    /\ pc = "sleep"
    /\ pc' = after_continue(client)
    /\ lastStep' = "wake"
    /\ UNCHANGED <<settings, last_posted_file, entries, todo,
                   last_posted_date_str, client, message, description, limit,
                   posted, saved, postCount, logins, loginError, lastWrite,
                   runs, gap, unordered, prior, image, status, sent,
                   cursorAtStart, procs>>

\* get_client, lines 88-89 and 97: login succeeded
LoginOk ==
    /\ pc = "login"
    /\ logins' = logins + 1
    /\ client' = "LoggedIn"
    /\ pc' = "post"
    /\ lastStep' = "login"
    /\ UNCHANGED <<settings, last_posted_file, entries, todo,
                   last_posted_date_str, message, description, limit, posted,
                   saved, postCount, loginError, lastWrite, runs, gap,
                   unordered, prior, image, status, sent, cursorAtStart,
                   procs>>

\* mutant of PostOk: the loop moves on without waiting for the cursor save
PostOk_unsaved ==
    /\ pc = "post"
    /\ posted' = Append(posted, Head(todo))
    /\ postCount' = [postCount EXCEPT ![Head(todo)] = Min(@ + 1, 2)]
    /\ sent' = IF truthy(image) THEN "image" ELSE "text"
    /\ todo' = Tail(todo)
    /\ pc' = "loop"
    /\ lastStep' = "post"
    /\ UNCHANGED <<settings, last_posted_file, entries, last_posted_date_str,
                   client, message, description, limit, saved, logins,
                   loginError, lastWrite, runs, gap, unordered, prior, image,
                   status, cursorAtStart, procs>>

\* line 156: post_to_bluesky returned
PostOk ==
    /\ pc = "post"
    /\ posted' = Append(posted, Head(todo))
    /\ postCount' = [postCount EXCEPT ![Head(todo)] = Min(@ + 1, 2)]
    /\ sent' = IF truthy(image) THEN "image" ELSE "text"
    /\ pc' = "save"
    /\ lastStep' = "post"
    /\ UNCHANGED <<settings, last_posted_file, entries, todo,
                   last_posted_date_str, client, message, description, limit,
                   saved, logins, loginError, lastWrite, runs, gap, unordered,
                   prior, image, status, cursorAtStart, procs>>

\* the process dies: its locals are gone, the cursor file stays
ProcessGone ==
    /\ pc' = "idle"
    /\ entries' = <<>>
    /\ todo' = <<>>
    /\ last_posted_date_str' = None
    /\ client' = "None"
    /\ message' = None
    /\ posted' = <<>>
    /\ saved' = <<>>
    /\ logins' = 0
    /\ loginError' = <<>>
    /\ lastWrite' = <<>>
    /\ cursorAtStart' = <<>>
    /\ image' = "None"
    /\ status' = 0
    /\ sent' = "none"
    /\ UNCHANGED <<settings, description, limit, postCount, runs, unordered,
                   procs>>

\* lines 137-152, 61: the entry passed the filters, its first candidate is an
\* image, and httpx.get raised (timeout, connection refused, bad url); nothing
\* catches it and the run ends
MediaFail ==
    /\ pc = "loop"
    /\ todo # <<>>
    /\ ~skip_tagged(Head(todo))
    /\ passes_dates(Head(todo), last_posted_date_str)
    /\ wants_image(Head(todo))
    /\ lastStep' = "mediafail"
    /\ prior' = <<>>
    /\ ProcessGone
    /\ UNCHANGED <<last_posted_file, gap>>

\* mutant of PostFail: before the run ends the cursor is written for the entry
PostFail_saved ==
    /\ pc = "post"
    /\ lastStep' = "postfail"
    /\ last_posted_file' = save_last_posted_date(entry_published(Head(todo)))
    /\ prior' = <<>>
    /\ ProcessGone
    /\ UNCHANGED gap

\* line 156: post_to_bluesky raised; nothing catches it and the run ends
PostFail ==
    /\ pc = "post"
    /\ lastStep' = "postfail"
    /\ prior' = <<>>
    /\ ProcessGone
    /\ UNCHANGED <<last_posted_file, gap>>

\* line 159: save_last_posted_date returned; the loop moves on.  image is
\* not read again before line 140 sets it to None for the next entry that
\* passes the filters, so it is cleared here.
SaveOk ==
    /\ pc = "save"
    /\ last_posted_file' = save_last_posted_date(entry_published(Head(todo)))
    /\ saved' = Append(saved, Head(todo))
    /\ lastWrite' = <<last_posted_file, last_posted_file'>>
    /\ todo' = Tail(todo)
    /\ image' = "None"
    /\ status' = 0
    /\ sent' = "none"
    /\ pc' = "loop"
    /\ lastStep' = "save"
    /\ UNCHANGED <<settings, entries, last_posted_date_str, client, message,
                   description, limit, posted, postCount, logins, loginError,
                   runs, gap, unordered, prior, cursorAtStart, procs>>

\* mutant of SaveFail: the error is swallowed and the loop moves on
SaveFail_swallowed(truncated) ==
    /\ pc = "save"
    /\ last_posted_file' = IF truncated THEN <<EmptyStr>> ELSE last_posted_file
    /\ lastStep' = "savefail"
    /\ gap' = TRUE
    /\ todo' = Tail(todo)
    /\ pc' = "loop"
    /\ UNCHANGED <<settings, entries, last_posted_date_str, client, message,
                   description, limit, posted, saved, postCount, logins,
                   loginError, lastWrite, runs, unordered, prior, image,
                   status, sent, cursorAtStart, procs>>

\* lines 40-41: open(.., "w") or write raised; nothing catches it and the run
\* ends.  When open succeeded the file has been truncated and is left empty.
SaveFail(truncated) ==
    /\ pc = "save"
    /\ last_posted_file' = IF truncated THEN <<EmptyStr>> ELSE last_posted_file
    /\ lastStep' = "savefail"
    /\ gap' = TRUE
    /\ prior' = <<>>
    /\ ProcessGone

\* the process is killed between two steps of a run
Crash ==
    /\ pc \in {"loop", "login", "sleep", "post", "save"}
    /\ lastStep' = "crash"
    /\ gap' = (gap \/ pc = "save")
    /\ prior' = IF pc = "save"
                THEN <<"gap", Head(todo), RevChron(entries) /\ DistinctTs(entries)>>
                ELSE <<>>
    /\ ProcessGone
    /\ UNCHANGED last_posted_file

\* line 162: the loop is exhausted, main() returns
Finish ==
    /\ pc = "loop"
    /\ todo = <<>>
    /\ pc' = "ended"
    /\ lastStep' = "done"
    /\ UNCHANGED <<settings, last_posted_file, entries, todo,
                   last_posted_date_str, client, message, description, limit,
                   posted, saved, postCount, logins, loginError, lastWrite,
                   runs, gap, unordered, prior, image, status, sent,
                   cursorAtStart, procs>>

\* lines 165-166: main() has returned and the process exits
Exit ==
    /\ pc = "ended"
    /\ lastStep' = "exit"
    /\ prior' = <<>>
    /\ ProcessGone
    /\ UNCHANGED <<last_posted_file, gap>>

Next ==
    \/ \E f \in Feeds : StartRun(f)
    \/ Rerun
    \/ SkipEntry
    \/ FilterOut
    \/ \E response \in Responses : Prepare(response)
    \/ MediaFail
    \/ \E msg \in LoginErrors : LoginFail(msg)
    \/ Wake
    \/ LoginOk
    \/ PostOk
    \/ PostFail
    \/ SaveOk
    \/ \E truncated \in BOOLEAN : SaveFail(truncated)
    \/ Crash
    \/ Finish
    \/ Exit

Spec == Init /\ [][Next]_vars

(***************************************************************************)
(* Runs in which every call returns: no exception leaves main() and the    *)
(* process is not killed.  main() is one thread that executes its          *)
(* statements in sequence, and a call that returns does so in finite time  *)
(* (the sleep of get_client included), so a step of the run that is        *)
(* possible is eventually taken.                                           *)
(***************************************************************************)
RunStep ==
    \/ SkipEntry
    \/ FilterOut
    \/ \E response \in Responses : Prepare(response)
    \/ \E msg \in LoginErrors : LoginFail(msg)
    \/ Wake
    \/ LoginOk
    \/ PostOk
    \/ SaveOk
    \/ Finish

NextLive ==
    \/ \E f \in Feeds : StartRun(f)
    \/ Rerun
    \/ RunStep
    \/ Exit

SpecLive == Init /\ [][NextLive]_vars /\ WF_vars(RunStep)

(***************************************************************************)
(* Two processes run main() at the same time on one feed and one cursor    *)
(* file, nothing keeping one out while the other works (the code takes no  *)
(* lock).  Each runs the loop of main(); the steps of the two interleave.  *)
(* Login, media and failures are left out: each process's calls return.    *)
(***************************************************************************)
Procs == {1, 2}

Active(p) == procs[p].pc \notin {"idle", "ended"}

InitConc ==
    /\ settings \in SettingsChoices
    /\ last_posted_file = <<>>
    /\ entries \in Feeds
    /\ procs = [p \in Procs |->
                  [pc |-> "idle", todo |-> <<>>, last_posted_date_str |-> None,
                   posted |-> <<>>, overwritten |-> <<>>, alone |-> TRUE]]
    /\ lastWrite = <<>>
    /\ pc = "idle"
    /\ todo = <<>>
    /\ last_posted_date_str = None
    /\ client = "None"
    /\ message = None
    /\ description = <<>>
    /\ limit = PostLimit
    /\ posted = <<>>
    /\ saved = <<>>
    /\ postCount = [e \in Entries |-> 0]
    /\ logins = 0
    /\ loginError = <<>>
    /\ lastStep = "init"
    /\ runs = 0
    /\ gap = FALSE
    /\ unordered = FALSE
    /\ image = "None"
    /\ status = 0
    /\ sent = "none"
    /\ prior = <<>>
    /\ cursorAtStart = <<>>

\* what a step of a process of the pair leaves alone
ConcFrame ==
    UNCHANGED <<settings, entries, pc, todo, last_posted_date_str, client,
                message, description, limit, posted, saved, postCount, logins,
                loginError, lastStep, runs, gap, unordered, image, status,
                sent, prior, cursorAtStart>>

\* lines 100-126: fetch the feed, read the cursor, enter the loop
ConcStart(p) ==
    /\ procs[p].pc = "idle"
    /\ procs' = [procs EXCEPT
                    ![p].pc = "loop",
                    ![p].todo = reversed(entries),
                    ![p].last_posted_date_str =
                        read_last_posted_date(last_posted_file),
                    ![p].alone = \A q \in Procs \ {p} : ~Active(q)]
    /\ UNCHANGED <<last_posted_file, lastWrite>>
    /\ ConcFrame

\* lines 127-136: the entry is skip-tagged or fails the date test
ConcPass(p) ==
    /\ procs[p].pc = "loop"
    /\ procs[p].todo # <<>>
    /\ IF skip_tagged(Head(procs[p].todo)) THEN TRUE
       ELSE ~passes_dates(Head(procs[p].todo), procs[p].last_posted_date_str)
    /\ procs' = [procs EXCEPT ![p].todo = Tail(@)]
    /\ UNCHANGED <<last_posted_file, lastWrite>>
    /\ ConcFrame

\* lines 137-156: the entry passes the tests and is published
ConcPost(p) ==
    /\ procs[p].pc = "loop"
    /\ procs[p].todo # <<>>
    /\ ~skip_tagged(Head(procs[p].todo))
    /\ passes_dates(Head(procs[p].todo), procs[p].last_posted_date_str)
    /\ procs' = [procs EXCEPT
                    ![p].posted = Append(@, Head(procs[p].todo)),
                    ![p].pc = "open"]
    /\ UNCHANGED <<last_posted_file, lastWrite>>
    /\ ConcFrame

\* line 40: open(.., "w") creates the file or empties it
ConcOpen(p) ==
    /\ procs[p].pc = "open"
    /\ last_posted_file' = <<EmptyStr>>
    /\ procs' = [procs EXCEPT ![p].overwritten = last_posted_file,
                              ![p].pc = "write"]
    /\ UNCHANGED lastWrite
    /\ ConcFrame

\* line 41: the string is written and the file closed; the loop moves on
ConcWrite(p) ==
    /\ procs[p].pc = "write"
    /\ last_posted_file' =
           save_last_posted_date(entry_published(Head(procs[p].todo)))
    /\ lastWrite' = <<procs[p].overwritten, last_posted_file'>>
    /\ procs' = [procs EXCEPT ![p].todo = Tail(@), ![p].pc = "loop"]
    /\ ConcFrame

\* line 162: the loop is exhausted
ConcFinish(p) ==
    /\ procs[p].pc = "loop"
    /\ procs[p].todo = <<>>
    /\ procs' = [procs EXCEPT ![p].pc = "ended"]
    /\ UNCHANGED <<last_posted_file, lastWrite>>
    /\ ConcFrame

NextConc ==
    \E p \in Procs :
        \/ ConcStart(p)
        \/ ConcPass(p)
        \/ ConcPost(p)
        \/ ConcOpen(p)
        \/ ConcWrite(p)
        \/ ConcFinish(p)

SpecConc == InitConc /\ [][NextConc]_vars

(***************************************************************************)
(* truncate_text on its own: the arguments are drawn from bounded sets and *)
(* one step applies the function.                                          *)
(***************************************************************************)
Alphabet == {"a", " ", "|"}

Limits == Len(link_text)..(Len(link_text) + MaxSlack)

InitTrunc ==
    /\ settings \in [SKIP_TAG : {<<>>},
                     START_POST_DATE : {EmptyStr},
                     SPLITTER : {<<>>, <<"|">>}]
    /\ description \in SeqsUpTo(Alphabet, MaxDescLen)
    /\ limit \in Limits
    /\ message = None
    /\ pc = "call"
    /\ last_posted_file = <<>>
    /\ entries = <<>>
    /\ todo = <<>>
    /\ last_posted_date_str = None
    /\ client = "None"
    /\ posted = <<>>
    /\ saved = <<>>
    /\ postCount = [e \in Entries |-> 0]
    /\ logins = 0
    /\ loginError = <<>>
    /\ lastStep = "init"
    /\ lastWrite = <<>>
    /\ runs = 0
    /\ gap = FALSE
    /\ unordered = FALSE
    /\ image = "None"
    /\ status = 0
    /\ sent = "none"
    /\ prior = <<>>
    /\ cursorAtStart = <<>>
    /\ procs = NoProcs

\* lines 44-57: one call of truncate_text(description, link, limit)
TruncateText ==
    /\ pc = "call"
    /\ message' = truncate_text(description, <<"/">>, limit)
    /\ pc' = "ret"
    /\ UNCHANGED <<settings, last_posted_file, entries, todo,
                   last_posted_date_str, client, description, limit, posted,
                   saved, postCount, logins, loginError, lastStep, lastWrite,
                   runs, gap, unordered, prior, image, status, sent,
                   cursorAtStart, procs>>

NextTrunc == TruncateText

SpecTrunc == InitTrunc /\ [][NextTrunc]_vars

(***************************************************************************)
(* Properties.                                                             *)
(***************************************************************************)
Range(s) == {s[k] : k \in 1..Len(s)}

Last(s) == s[Len(s)]

NonDecreasing(s) == \A i, j \in 1..Len(s) : i < j => Ts(s[i]) <= Ts(s[j])

StrictlyIncreasing(s) == \A i, j \in 1..Len(s) : i < j => Ts(s[i]) < Ts(s[j])

\* a cursor file that holds a cursor: it exists and is not empty
HoldsCursor(file) == file # <<>> /\ file[1] # EmptyStr

\* the instant a cursor file holds
CursorTs(file) == strptime(file[1])

\* the configured skip marker occurs in the entry's description
HasSkipMarker(e) ==
    /\ settings.SKIP_TAG # <<>>
    /\ \E k \in 1..Len(entry_description(e)) :
           /\ k + Len(settings.SKIP_TAG) - 1 <= Len(entry_description(e))
           /\ \A m \in 1..Len(settings.SKIP_TAG) :
                  entry_description(e)[k + m - 1] = settings.SKIP_TAG[m]

StartConfigured == settings.START_POST_DATE # EmptyStr

StartTs == strptime(settings.START_POST_DATE)

\* C1 as stated: whatever the order of the feed, the entries published in a
\* run are in non-decreasing order of publication instant, and in strictly
\* increasing order when the feed's instants are distinct.
C1_OrderAnyFeed ==
    /\ NonDecreasing(posted)
    /\ DistinctTs(entries) => StrictlyIncreasing(posted)

\* C1 amended: when the feed is delivered newest first, the entries
\* published in a run are in non-decreasing order of publication instant,
\* and in strictly increasing order when the feed's instants are distinct.
C1_OrderRevChronFeed ==
    RevChron(entries) =>
        /\ NonDecreasing(posted)
        /\ DistinctTs(entries) => StrictlyIncreasing(posted)

C1_Witness ==
    /\ RevChron(entries)
    /\ DistinctTs(entries)
    /\ Len(posted) >= 2
    /\ Ts(posted[1]) < Ts(posted[2])

\* C2 as stated: over any sequence of runs, failed and crashed runs
\* included, no entry is successfully published more than once.
C2_AtMostOnceAlways == \A e \in Entries : postCount[e] <= 1

\* C2 amended: as long as every feed was delivered newest first and no run
\* ended between a successful publish and the completion of its cursor
\* save, no entry is successfully published more than once.
C2_AtMostOnceNormal ==
    (~gap /\ ~unordered) => \A e \in Entries : postCount[e] <= 1

C2_Witness ==
    /\ runs = 2
    /\ lastStep = "done"
    /\ ~gap
    /\ ~unordered
    /\ posted # <<>>
    /\ \E e \in Range(entries) :
           /\ postCount[e] = 1
           /\ e \notin Range(posted)
           /\ ~HasSkipMarker(e)
           /\ StartConfigured => Ts(e) > StartTs

\* C3: in a run that follows another, no entry whose publication instant is
\* at or below the cursor the earlier run left behind is published.
C3_NoRepostAtOrBelowCursor ==
    (runs >= 2 /\ HoldsCursor(cursorAtStart)) =>
        \A k \in 1..Len(posted) : Ts(posted[k]) > CursorTs(cursorAtStart)

C3_Witness ==
    /\ runs = 2
    /\ ~gap
    /\ lastStep = "done"
    /\ HoldsCursor(cursorAtStart)
    /\ posted # <<>>
    /\ \E e \in Range(entries) :
           /\ postCount[e] = 1
           /\ e \notin Range(posted)
           /\ Ts(e) = CursorTs(cursorAtStart)

\* the entries a run that starts from the cursor file `file` has to publish
Eligible(file) ==
    {e \in Range(entries) :
        /\ ~HasSkipMarker(e)
        /\ HoldsCursor(file) => Ts(e) > CursorTs(file)
        /\ StartConfigured => Ts(e) > StartTs}

\* C4: a run that completes has published exactly the feed entries that are
\* not skip-tagged, are newer than the cursor the run started from and newer
\* than the start boundary, each of them once.
C4_Resumability ==
    lastStep = "done" =>
        /\ Range(posted) = Eligible(cursorAtStart)
        /\ Len(posted) = Cardinality(Range(posted))

C4_Witness ==
    /\ lastStep = "done"
    /\ HoldsCursor(cursorAtStart)
    /\ posted # <<>>
    /\ \E e \in Range(entries) : Ts(e) <= CursorTs(cursorAtStart)

\* C5 as stated: the entry that has just been published is newer than the
\* start boundary and newer than the value the cursor file holds at that
\* moment, values written earlier in the same run included.
C5_NewerThanCurrentCursor ==
    pc = "save" =>
        /\ StartConfigured => Ts(Head(todo)) > StartTs
        /\ HoldsCursor(last_posted_file) =>
               Ts(Head(todo)) > CursorTs(last_posted_file)

\* C5 amended: the entry that has just been published is newer than the
\* start boundary and newer than the value the cursor file held when the
\* run started.
C5_NewerThanStartCursor ==
    pc = "save" =>
        /\ StartConfigured => Ts(Head(todo)) > StartTs
        /\ HoldsCursor(cursorAtStart) =>
               Ts(Head(todo)) > CursorTs(cursorAtStart)

C5_Witness ==
    /\ pc = "save"
    /\ HoldsCursor(cursorAtStart)
    /\ \E e \in Range(entries) : Ts(e) <= CursorTs(cursorAtStart)

\* C6 as stated: every completed cursor write stores an instant strictly
\* greater than the one it overwrites, whatever the feed.
C6_CursorStrictlyIncreases ==
    (lastWrite # <<>> /\ HoldsCursor(lastWrite[1])) =>
        CursorTs(lastWrite[2]) > CursorTs(lastWrite[1])

\* C6 amended: when the feed is delivered newest first, every completed
\* cursor write stores an instant greater than or equal to the one it
\* overwrites, and strictly greater when the feed's instants are distinct.
C6_CursorMonotoneRevChron ==
    (lastWrite # <<>> /\ HoldsCursor(lastWrite[1]) /\ RevChron(entries)) =>
        /\ CursorTs(lastWrite[2]) >= CursorTs(lastWrite[1])
        /\ DistinctTs(entries) =>
               CursorTs(lastWrite[2]) > CursorTs(lastWrite[1])

C6_Witness ==
    /\ lastWrite # <<>>
    /\ HoldsCursor(lastWrite[1])
    /\ RevChron(entries)
    /\ DistinctTs(entries)
    /\ Len(saved) >= 2

\* C7: a step that writes the cursor file comes directly after the
\* successful publish of one entry that passed the filters, with no other
\* step between, and unless the save fails the file then holds exactly that
\* entry's published string.
C7_WriteFollowsPublish ==
    [][(last_posted_file' # last_posted_file
        \/ (lastWrite' # lastWrite /\ lastWrite' # <<>>)) =>
            /\ lastStep = "post"
            /\ posted # <<>>
            /\ Last(posted) = Head(todo)
            /\ Last(posted) \in Eligible(cursorAtStart)
            /\ \/ lastStep' = "savefail"
               \/ /\ posted' = posted
                  /\ last_posted_file' = <<entry_published(Last(posted))>>]_vars

C7_Witness ==
    /\ lastStep = "save"
    /\ Len(saved) >= 2
    /\ last_posted_file = <<entry_published(Last(posted))>>
    /\ entry_published(Last(posted)) = <<"2", "1">>

\* C8: an entry's transformation and publish begin only when the cursor
\* save of every entry published before it in the run has completed.
C8_CyclesSerialized ==
    /\ pc \in {"loop", "login", "sleep", "post"} => saved = posted
    /\ pc = "save" => posted = Append(saved, Head(todo))

C8_Witness ==
    /\ pc = "post"
    /\ Len(saved) >= 1
    /\ lastStep = "prepare"

\* C9: no entry that carries the configured skip marker is published, and
\* the step the loop takes at such an entry publishes nothing, makes no login
\* call and leaves the cursor file as it was (so does the death of the
\* process at that point).
C9_SkipTagFrame ==
    /\ [](\A k \in 1..Len(posted) : ~HasSkipMarker(posted[k]))
    /\ [][(pc = "loop" /\ todo # <<>> /\ HasSkipMarker(Head(todo))) =>
            /\ postCount' = postCount
            /\ last_posted_file' = last_posted_file
            /\ \/ lastStep' = "crash"
               \/ /\ posted' = posted
                  /\ logins' = logins
                  /\ client' = client
                  /\ pc' = "loop"
                  /\ todo' = Tail(todo)]_vars

C9_Witness ==
    /\ lastStep = "skip"
    /\ HoldsCursor(last_posted_file)
    /\ \E e \in Range(entries) :
           /\ HasSkipMarker(e)
           /\ Ts(e) > CursorTs(last_posted_file)

\* C11 as stated: a publish is attempted only on a session whose login
\* succeeded: whenever main is at the publish of an entry, the client it
\* holds has logged in.
C11_PublishOnlyLoggedIn == pc = "post" => client = "LoggedIn"

\* C12: login is called at most once per run, and only when the first entry
\* that passes the filters is about to be published; once main holds a
\* client it keeps that client for the rest of the run; a run none of whose
\* entries passes the filters makes no login call.
C12_LazySingleLogin ==
    /\ [](logins <= 1)
    /\ [](pc = "login" =>
            /\ logins = 0
            /\ posted = <<>>
            /\ todo # <<>>
            /\ Head(todo) \in Eligible(cursorAtStart))
    /\ [](logins > 0 => \E k \in 1..Len(entries) :
                             entries[k] \in Eligible(cursorAtStart))
    /\ [][/\ logins' # logins => (pc = "login" \/ logins' = 0)
          /\ (client # "None" /\ pc # "ended" /\ pc' # "idle") =>
                client' = client]_vars

C12_Witness ==
    /\ pc = "post"
    /\ Len(posted) >= 1
    /\ logins = 1
    /\ client = "LoggedIn"

\* C17: a failed login is followed by the 24 hour sleep exactly when its
\* message contains "RateLimitExceeded", and the process sleeps at no other
\* point.
C17_CooldownOnlyOnRateLimit ==
    /\ [](pc = "sleep" =>
            /\ lastStep = "loginfail"
            /\ \E k \in 1..Len(loginError) :
                   loginError[k] = "RateLimitExceeded")
    /\ [][lastStep' = "loginfail" =>
            (pc' = "sleep" <=>
                \E k \in 1..Len(loginError') :
                    loginError'[k] = "RateLimitExceeded")]_vars

C17_Witness ==
    /\ lastStep = "loginfail"
    /\ pc = "post"
    /\ loginError = <<"Response", "401", "AuthenticationRequired">>

\* C13: when the cursor save for an entry fails, the step ends the run (so
\* no later entry is published by it), publishes nothing, and leaves the
\* cursor file either as it was or empty, never holding that entry's
\* published string.
C13_FailedSaveDoesNotAdvance ==
    [][lastStep' = "savefail" =>
        /\ pc = "save"
        /\ pc' = "idle"
        /\ todo' = <<>>
        /\ postCount' = postCount
        /\ last_posted_file' \in {last_posted_file, <<EmptyStr>>}
        /\ last_posted_file' # <<entry_published(Head(todo))>>]_vars

C13_Witness ==
    /\ lastStep = "savefail"
    /\ HoldsCursor(last_posted_file)
    /\ \E e \in Entries :
           /\ postCount[e] = 1
           /\ Ts(e) > CursorTs(last_posted_file)

C20_IdempotentRerun ==
    (prior = <<"rerun">> /\ RevChron(entries) /\ DistinctTs(entries)) =>
        /\ pc \in {"loop", "ended"}
        /\ logins = 0
        /\ client = "None"
        /\ posted = <<>>
        /\ lastWrite = <<>>
        /\ last_posted_file = cursorAtStart

C20_Witness ==
    /\ prior = <<"rerun">>
    /\ RevChron(entries)
    /\ DistinctTs(entries)
    /\ pc = "ended"
    /\ HoldsCursor(last_posted_file)
    /\ \E e \in Range(entries) : postCount[e] = 1
    /\ Len(entries) >= 2

\* the first media candidate under the selected key has an image extension
FirstCandidateIsImage(e) ==
    LET m == entry_media(e)
        c == IF m.has_enclosures THEN m.enclosures ELSE m.media_content
    IN  IF c = <<>> THEN FALSE
        ELSE \E ext \in {<<".", "j", "p", "g">>, <<".", "j", "p", "e", "g">>,
                          <<".", "p", "n", "g">>, <<".", "g", "i", "f">>} :
                 endswith(lower(c[1].url), {ext})

\* C15 as stated: an entry that has just been published was sent with an
\* image exactly when its first media candidate has an image extension and
\* the fetch returned 200; and the media step never ends the run, so that in
\* every other case the entry is still published as text.
C15_MediaGating ==
    /\ lastStep # "mediafail"
    /\ lastStep = "post" =>
           (sent = "image" <=>
               (FirstCandidateIsImage(Last(posted)) /\ status = 200))

C19_SerialRunsPreserve ==
    ((\A p \in Procs : procs[p].alone)
        /\ RevChron(entries) /\ DistinctTs(entries)) =>
        /\ Range(procs[1].posted) \cap Range(procs[2].posted) = {}
        /\ (lastWrite # <<>> /\ HoldsCursor(lastWrite[1])) =>
               CursorTs(lastWrite[2]) > CursorTs(lastWrite[1])

C19_Witness ==
    /\ \E p \in Procs : ~procs[p].alone
    /\ RevChron(entries)
    /\ DistinctTs(entries)
    /\ Range(procs[1].posted) \cap Range(procs[2].posted) # {}
    /\ lastWrite # <<>>
    /\ HoldsCursor(lastWrite[1])
    /\ CursorTs(lastWrite[2]) <= CursorTs(lastWrite[1])

\* C10: for every body and every limit L >= Len("Read post"), the text
\* truncate_text renders (body, separator, link label) is at most L long.
C10_TruncationBound ==
    pc = "ret" => Len(message.text) <= limit

====
